---- MODULE Spec2Model ----
(***************************************************************************)
(* Credential lifecycle of the google-calendar-service: the OAuth state    *)
(* token (app/core/security.py), the token store (app/db/repositories.py), *)
(* and the request handlers of AuthService and CalendarService.            *)
(*                                                                         *)
(* A Python str is a sequence of atoms; the atom "." is the separator the  *)
(* state token is built from and parsed on, every other atom is a piece of *)
(* text that holds no ".".                                                 *)
(***************************************************************************)
EXTENDS Integers, Sequences, FiniteSets, TLC

VARIABLES
    now,        \* the wall clock, in seconds (datetime.now(timezone.utc))
    ttl,        \* OAuthStateManager.ttl_seconds
    issued,     \* state tokens handed out by generate_state: [tok, user, at]
    last,       \* the latest validate_state call: [state, at, out, prev]
    rows,       \* the table google_calendar_tokens
    nextId,     \* the id the store gives the next inserted row
    proc,       \* the requests being served, one per worker slot
    started,    \* how many requests have arrived so far
    sealed,     \* the encrypt calls so far, in order: [plaintext, nonce, out]
    opened,     \* the latest decrypt call: [ciphertext, nonce, out], and their count
    avail,      \* a _calculate_free_slots call: its arguments and its result
    effects,    \* the changes made on the external calendar (the provider's side)
    sync_log,   \* the table google_calendar_sync_logs
    req         \* the calendar request being served, or the last one answered

smVars == <<issued, last>>
lcVars == <<rows, nextId, proc, started>>
cryptVars == <<sealed, opened>>
coreVars == <<now, ttl, issued, last, rows, nextId, proc, started>>
calVars == <<effects, sync_log, req>>
vars == <<now, ttl, issued, last, rows, nextId, proc, started, sealed, opened, avail,
          effects, sync_log, req>>

(***************************************************************************)
(* Bounds of the model.                                                    *)
(***************************************************************************)
MaxSkew == 2        \* seconds the clock is followed after each jump
MaxIssued == 1      \* state tokens followed at once
MaxProcs == 2       \* requests served at the same time
MaxRequests == 3    \* requests followed in one run
MaxTime == 1        \* seconds the lifecycle is followed for
StateTtlSetting == 0    \* OAUTH_STATE_TTL_SECONDS the lifecycle runs with
AccessLifetime == 1     \* expires_in of the access tokens the provider issues

(***************************************************************************)
(* Strings.                                                                *)
(***************************************************************************)
DOT == "."

Digits == <<"0", "1", "2", "3", "4", "5", "6", "7", "8", "9">>

RECURSIVE IntToStr(_)
\* str(n) of a non-negative int, as the f-string of generate_state formats it
IntToStr(n) ==
    IF n < 10 THEN <<Digits[n + 1]>>
    ELSE IntToStr(n \div 10) \o <<Digits[(n % 10) + 1]>>

DigitValue(c) == CHOOSE d \in 0..9 : Digits[d + 1] = c

IsDigit(c) == \E d \in 0..9 : Digits[d + 1] = c

\* int(s) succeeds (over the atoms of this model) iff s is a non-empty run of digits
IsIntStr(s) == Len(s) > 0 /\ \A i \in 1..Len(s) : IsDigit(s[i])

RECURSIVE StrToInt(_)
StrToInt(s) ==
    IF Len(s) = 0 THEN 0
    ELSE 10 * StrToInt(SubSeq(s, 1, Len(s) - 1)) + DigitValue(s[Len(s)])

DotIndexes(s) == {i \in 1..Len(s) : s[i] = DOT}

Max(S) == CHOOSE x \in S : \A y \in S : y <= x
Min(S) == CHOOSE x \in S : \A y \in S : x <= y

\* state.rsplit(".", 1)
RSplit1(s) ==
    IF DotIndexes(s) = {} THEN <<s>>
    ELSE LET i == Max(DotIndexes(s))
         IN  <<SubSeq(s, 1, i - 1), SubSeq(s, i + 1, Len(s))>>

RECURSIVE Split(_)
\* payload.split(".")
Split(s) ==
    IF DotIndexes(s) = {} THEN <<s>>
    ELSE LET i == Min(DotIndexes(s))
         IN  <<SubSeq(s, 1, i - 1)>> \o Split(SubSeq(s, i + 1, Len(s)))

(***************************************************************************)
(* OAuthStateManager.                                                      *)
(***************************************************************************)
SecretKey == "k1"       \* the manager's secret_key
OtherKey == "k2"        \* any other secret

\* Python values a call may return or raise
Value(v) == [tag |-> "value", v |-> v]
NoneResult == [tag |-> "none", v |-> <<>>]
Raised == [tag |-> "raise", v |-> <<>>]

\* An ideal keyed hash: a text without "." that determines key and payload
\* (the hex digest holds no "."; distinct inputs give distinct digests).
Sign(key, payload) ==
    <<key>> \o [i \in 1..Len(payload) |-> IF payload[i] = DOT THEN ":" ELSE payload[i]]

Payload(random_part, user_id, timestamp) ==
    <<random_part, DOT>> \o user_id \o <<DOT>> \o IntToStr(timestamp)

GenerateState(key, random_part, user_id, timestamp) ==
    LET payload == Payload(random_part, user_id, timestamp)
    IN  payload \o <<DOT>> \o Sign(key, payload)

\* a slip of the comparison: one second of grace
ExpiredAfterLate(age, ttl_seconds) == age > ttl_seconds + 1

\* if now - timestamp > self.ttl_seconds
ExpiredAfter(age, ttl_seconds) == age > ttl_seconds

\* the body of validate_state's try block
ValidateStateBody(key, ttl_seconds, state, t) ==
    LET parts == RSplit1(state) IN
    IF Len(parts) # 2 THEN NoneResult
    ELSE
      LET payload == parts[1]
          signature == parts[2]
      IN
      IF signature # Sign(key, payload) THEN NoneResult
      ELSE
        LET payload_parts == Split(payload) IN
        IF Len(payload_parts) # 3 THEN NoneResult
        ELSE IF ~IsIntStr(payload_parts[3]) THEN Raised      \* int(): ValueError
        ELSE IF ExpiredAfter(t - StrToInt(payload_parts[3]), ttl_seconds)
             THEN NoneResult
        ELSE Value(payload_parts[2])

\* a slip of validate_state: the signature is never compared
ValidateStateUnsigned(key, ttl_seconds, state, t) ==
    LET parts == RSplit1(state) IN
    IF Len(parts) # 2 THEN NoneResult
    ELSE
      LET payload_parts == Split(parts[1]) IN
      IF Len(payload_parts) # 3 \/ ~IsIntStr(payload_parts[3]) THEN NoneResult
      ELSE IF ExpiredAfter(t - StrToInt(payload_parts[3]), ttl_seconds) THEN NoneResult
      ELSE Value(payload_parts[2])

\* validate_state: except Exception: return None
ValidateState(key, ttl_seconds, state, t) ==
    LET r == ValidateStateBody(key, ttl_seconds, state, t)
    IN  IF r.tag = "raise" THEN NoneResult ELSE r

(***************************************************************************)
(* TokenEncryptor.  A bytes value is a sequence of 0..255, a str a         *)
(* sequence of code points, a base64 text a sequence of alphabet indexes   *)
(* 0..63, the pad "=" and characters outside the alphabet.                 *)
(***************************************************************************)
B64Pad == 64        \* "="
B64Junk == 65       \* an ASCII character outside the base64 alphabet ("!")

NonceLen == 12      \* os.urandom(12)
TagLen == 16        \* the authentication tag AESGCM appends
MinNonceLen == 8    \* AESGCM takes nonces of 8 to 128 bytes
MaxNonceLen == 128

MasterKey == 1      \* the key of settings.google_token_encryption_key
ForeignKey == 2     \* any other 32-byte key

RECURSIVE B64Encode(_)
\* base64.b64encode(bytes)
B64Encode(b) ==
    IF Len(b) = 0 THEN <<>>
    ELSE IF Len(b) = 1
      THEN <<b[1] \div 4, (b[1] % 4) * 16, B64Pad, B64Pad>>
    ELSE IF Len(b) = 2
      THEN <<b[1] \div 4, (b[1] % 4) * 16 + b[2] \div 16, (b[2] % 16) * 4, B64Pad>>
    ELSE <<b[1] \div 4, (b[1] % 4) * 16 + b[2] \div 16,
           (b[2] % 16) * 4 + b[3] \div 64, b[3] % 64>>
         \o B64Encode(SubSeq(b, 4, Len(b)))

RECURSIVE B64Scan(_, _, _, _, _, _)
\* binascii.a2b_base64 without strict_mode, from character i on: quad_pos is
\* the place in the group of four, leftchar the bits not yet written out,
\* pad_count the pads seen since the last alphabet character
B64Scan(s, i, quad_pos, leftchar, pad_count, out) ==
    IF i > Len(s)
      THEN IF quad_pos # 0 THEN Raised ELSE Value(out)
    ELSE IF s[i] = B64Pad
      THEN IF quad_pos >= 2 /\ quad_pos + pad_count + 1 >= 4
             THEN Value(out)        \* the pad ends the data; the rest is not read
           ELSE B64Scan(s, i + 1, quad_pos, leftchar,
                        IF quad_pos >= 2 THEN pad_count + 1 ELSE pad_count, out)
    ELSE IF s[i] >= 64
      THEN B64Scan(s, i + 1, quad_pos, leftchar, pad_count, out)   \* discarded
    ELSE IF quad_pos = 0
      THEN B64Scan(s, i + 1, 1, s[i], 0, out)
    ELSE IF quad_pos = 1
      THEN B64Scan(s, i + 1, 2, s[i] % 16, 0,
                   Append(out, leftchar * 4 + s[i] \div 16))
    ELSE IF quad_pos = 2
      THEN B64Scan(s, i + 1, 3, s[i] % 4, 0,
                   Append(out, leftchar * 16 + s[i] \div 4))
    ELSE B64Scan(s, i + 1, 0, 0, 0, Append(out, leftchar * 64 + s[i]))

\* base64.b64decode(s): validate is False
B64Decode(s) == B64Scan(s, 1, 0, 0, 0, <<>>)

IsSurrogate(cp) == cp >= 55296 /\ cp <= 57343

RECURSIVE Utf8Encode(_)
\* str.encode("utf-8") of code points below 65536
Utf8Encode(str) ==
    IF Len(str) = 0 THEN Value(<<>>)
    ELSE
      LET cp == str[1]
          rest == Utf8Encode(Tail(str))
          head == IF cp < 128 THEN <<cp>>
                  ELSE IF cp < 2048 THEN <<192 + cp \div 64, 128 + (cp % 64)>>
                  ELSE <<224 + cp \div 4096, 128 + ((cp \div 64) % 64), 128 + (cp % 64)>>
      IN  IF IsSurrogate(cp) \/ rest.tag = "raise" THEN Raised
          ELSE Value(head \o rest.v)

IsContinuation(b) == b >= 128 /\ b <= 191

RECURSIVE Utf8Decode(_)
\* bytes.decode("utf-8") of one-, two- and three-byte forms
Utf8Decode(b) ==
    IF Len(b) = 0 THEN Value(<<>>)
    ELSE IF b[1] < 128
      THEN LET rest == Utf8Decode(Tail(b))
           IN  IF rest.tag = "raise" THEN Raised ELSE Value(<<b[1]>> \o rest.v)
    ELSE IF b[1] >= 194 /\ b[1] <= 223 /\ Len(b) >= 2 /\ IsContinuation(b[2])
      THEN LET rest == Utf8Decode(SubSeq(b, 3, Len(b)))
           IN  IF rest.tag = "raise" THEN Raised
               ELSE Value(<<(b[1] - 192) * 64 + (b[2] - 128)>> \o rest.v)
    ELSE IF b[1] >= 224 /\ b[1] <= 239 /\ Len(b) >= 3
            /\ IsContinuation(b[2]) /\ IsContinuation(b[3])
      THEN LET cp == (b[1] - 224) * 4096 + (b[2] - 128) * 64 + (b[3] - 128)
               rest == Utf8Decode(SubSeq(b, 4, Len(b)))
           IN  IF cp < 2048 \/ IsSurrogate(cp) \/ rest.tag = "raise" THEN Raised
               ELSE Value(<<cp>> \o rest.v)
    ELSE Raised

\* AES-GCM as an ideal cipher.  The key stream byte at place i depends on the
\* key and the nonce.  The tag determines the key, the nonce and the body, and
\* every byte of it depends on all of them (GcmMix), so that a tag with some
\* bytes changed is not the tag of other inputs.
KeyStream(key, nonce, i) ==
    (key * 16 + (IF Len(nonce) = 0 THEN 0 ELSE nonce[Len(nonce)]) + i) % 256

RECURSIVE SumSeq(_)
SumSeq(b) == IF Len(b) = 0 THEN 0 ELSE b[1] + SumSeq(Tail(b))

GcmMix(key, nonce, body) ==
    (85 * (7 * key + 3 * SumSeq(nonce) + 5 * SumSeq(body) + 11 * Len(body))) % 256

GcmTag(key, nonce, body) ==
    LET t == <<Len(nonce)>> \o nonce \o <<key * 16 + Len(body)>> \o body
        padded == t \o [i \in 1..(TagLen - Len(t)) |-> 0]
    IN  [i \in 1..Len(padded) |-> (padded[i] + GcmMix(key, nonce, body)) % 256]

GoodNonce(nonce) == Len(nonce) >= MinNonceLen /\ Len(nonce) <= MaxNonceLen

\* AESGCM.encrypt(nonce, data, None)
AesGcmEncrypt(key, nonce, data) ==
    IF ~GoodNonce(nonce) THEN Raised
    ELSE LET body == [i \in 1..Len(data) |-> (data[i] + KeyStream(key, nonce, i)) % 256]
         IN  Value(body \o GcmTag(key, nonce, body))

\* AESGCM.decrypt(nonce, data, None): InvalidTag unless the tag is the body's
AesGcmDecrypt(key, nonce, data) ==
    IF ~GoodNonce(nonce) \/ Len(data) < TagLen THEN Raised
    ELSE LET body == SubSeq(data, 1, Len(data) - TagLen)
             tag == SubSeq(data, Len(data) - TagLen + 1, Len(data))
         IN  IF tag # GcmTag(key, nonce, body) THEN Raised
             ELSE Value([i \in 1..Len(body) |->
                            (body[i] + 256 - KeyStream(key, nonce, i)) % 256])

\* TokenEncryptor.encrypt with the nonce os.urandom returned; the key_id is
\* the key's; Raised is TokenEncryptionError
Encrypt(key, nonce, plaintext) ==
    LET data == Utf8Encode(plaintext) IN
    IF data.tag = "raise" THEN Raised
    ELSE LET ciphertext == AesGcmEncrypt(key, nonce, data.v) IN
         IF ciphertext.tag = "raise" THEN Raised
         ELSE Value(<<B64Encode(ciphertext.v), B64Encode(nonce), <<key>>>>)

NoDecrypt == [ciphertext |-> <<>>, nonce |-> <<>>, calls |-> 0,
              out |-> [tag |-> "nocall", v |-> <<>>]]

NoEvent == <<"event", 0>>

NoResponse == [status |-> 0, success |-> "absent", error |-> ""]

IdleReq == [pc |-> "idle", n |-> 0, endpoint |-> "", operation |-> "", user_id |-> <<>>,
            event_id |-> NoEvent, initiated_by |-> "", exc |-> "", applied |-> FALSE,
            response |-> NoResponse]

\* no calendar request is followed
CalIdle == effects = {} /\ sync_log = <<>> /\ req = IdleReq

\* no _calculate_free_slots call is followed
NoAvail == [busy_slots |-> <<>>, work_start |-> <<>>, work_end |-> <<>>,
            free_slots |-> <<>>, done |-> FALSE]

\* no encryptor call is followed
CryptIdle == sealed = <<>> /\ opened = NoDecrypt

\* a slip of decrypt: the bytes are returned as they are, not decoded
DecryptUndecoded(key, ciphertext_b64, nonce_b64) ==
    LET ciphertext == B64Decode(ciphertext_b64)
        nonce == B64Decode(nonce_b64)
    IN
    IF ciphertext.tag = "raise" \/ nonce.tag = "raise" THEN Raised
    ELSE AesGcmDecrypt(key, nonce.v, ciphertext.v)

\* TokenEncryptor.decrypt; Raised is TokenEncryptionError
Decrypt(key, ciphertext_b64, nonce_b64) ==
    LET ciphertext == B64Decode(ciphertext_b64)
        nonce == B64Decode(nonce_b64)
    IN
    IF ciphertext.tag = "raise" \/ nonce.tag = "raise" THEN Raised
    ELSE LET plaintext == AesGcmDecrypt(key, nonce.v, ciphertext.v) IN
         IF plaintext.tag = "raise" THEN Raised
         ELSE Utf8Decode(plaintext.v)

(***************************************************************************)
(* The state token on its own: tokens are issued, time passes, and strings *)
(* (issued, altered or made up) are presented to validate_state.           *)
(***************************************************************************)
DefaultTtlSeconds == 600

TtlChoices == {0, 1, DefaultTtlSeconds}
Elapses == {1, DefaultTtlSeconds}
\* the instants the clock is observed at: around 0 and around the default TTL
Times == {a * DefaultTtlSeconds + b : a \in 0..1, b \in 0..MaxSkew}

StateUsers == {<<"u1">>, <<"u2">>, <<"a", DOT, "b">>}
RandomParts == {"r1"}

\* the tampering of test_tampered_state_returns_none: the end of the signature replaced
AlterSignature(state) == SubSeq(state, 1, Len(state) - 1) \o <<"x">>

\* an issued signature put under another user's payload
SwapUser(state, user_id) ==
    LET parts == RSplit1(state)
        fields == Split(parts[1])
    IN  fields[1] \o <<DOT>> \o user_id \o <<DOT>> \o fields[Len(fields)]
            \o <<DOT>> \o parts[2]

Signed(key, payload) == payload \o <<DOT>> \o Sign(key, payload)

MadeUpStates ==
    { <<"invalid-state">>,
      <<>>,
      <<"r1", DOT, "u1", DOT, "0", DOT, "x">>,
      Signed(SecretKey, <<"r1", DOT, "u1">>),
      Signed(SecretKey, <<"r1", DOT, "u1", DOT, "x">>),
      Signed(SecretKey, <<"r1", DOT, "u1", DOT, "0", DOT, "0">>),
      Signed(SecretKey, <<"r1", DOT, "u1", DOT>>),
      Signed(OtherKey, <<"r1", DOT, "u1", DOT, "0">>) }

Presentable ==
    {i.tok : i \in issued}
        \cup {AlterSignature(i.tok) : i \in issued}
        \cup {SwapUser(i.tok, <<"u2">>) : i \in issued}
        \cup MadeUpStates

\* last: the string validate_state was called with last, when, what it returned,
\* and (prev) what the call before returned if it was made with the same string
NoCall == [state |-> <<>>, at |-> 0, out |-> [tag |-> "nocall", v |-> <<>>],
           prev |-> [tag |-> "nocall", v |-> <<>>]]

SmInit ==
    /\ now = 0
    /\ ttl \in TtlChoices
    /\ issued = {}
    /\ last = NoCall
    /\ rows = {}
    /\ nextId = 1
    /\ proc = [p \in {} |-> p]
    /\ started = 0
    /\ CryptIdle
    /\ avail = NoAvail
    /\ CalIdle

\* generate_state(user_id)
SmIssue(user_id, random_part) ==
    /\ Cardinality(issued) < MaxIssued
    /\ issued' = issued \cup
          {[tok |-> GenerateState(SecretKey, random_part, user_id, now),
            user |-> user_id, at |-> now]}
    /\ UNCHANGED <<now, ttl, last, lcVars, cryptVars, avail, calVars>>

\* a slip of validate_state: a token that was accepted is not accepted again
SmValidateConsumes(state) ==
    /\ last' = [state |-> state, at |-> now,
                out |-> IF last.state = state /\ last.out.tag = "value"
                        THEN NoneResult
                        ELSE ValidateState(SecretKey, ttl, state, now),
                prev |-> IF last.state = state THEN last.out ELSE NoCall.out]
    /\ UNCHANGED <<now, ttl, issued, lcVars, cryptVars, avail, calVars>>

\* validate_state(state)
SmValidate(state) ==
    /\ last' = [state |-> state, at |-> now,
                out |-> ValidateState(SecretKey, ttl, state, now),
                prev |-> IF last.state = state THEN last.out ELSE NoCall.out]
    /\ UNCHANGED <<now, ttl, issued, lcVars, cryptVars, avail, calVars>>

SmTick(d) ==
    /\ now + d \in Times
    /\ now' = now + d
    /\ UNCHANGED <<ttl, issued, last, lcVars, cryptVars, avail, calVars>>

SmNext ==
    \/ \E u \in StateUsers, r \in RandomParts : SmIssue(u, r)
    \/ \E s \in Presentable : SmValidate(s)
    \/ \E d \in Elapses : SmTick(d)

SpecState == SmInit /\ [][SmNext]_vars

(***************************************************************************)
(* Claims about the state token (checked under SpecState).                 *)
(***************************************************************************)
\* the issuances of the string validate_state was called with last
IssuancesOfLast == {i \in issued : i.tok = last.state}

HasNoDot(user_id) == DotIndexes(user_id) = {}

\* a token in the documented format {random}.{user_id}.{timestamp}.{signature}:
\* three fields, the last a number, then the keyed hash of those three fields
WellFormedSigned(state) ==
    \E k \in DotIndexes(state) :
        LET payload == SubSeq(state, 1, k - 1) IN
        /\ SubSeq(state, k + 1, Len(state)) = Sign(SecretKey, payload)
        /\ Cardinality(DotIndexes(payload)) = 2
        /\ LET d == Max(DotIndexes(payload))
           IN  d < Len(payload) /\ \A j \in (d + 1)..Len(payload) : IsDigit(payload[j])

\* C4: for every user_id u, validate_state(generate_state(u)) returns u when the
\* token is validated in the second it was issued in (same manager, TTL not elapsed).
C4_RoundTrip ==
    \A i \in IssuancesOfLast : last.at = i.at => last.out = Value(i.user)

\* C4, as far as the code goes: the round trip holds for every user_id without "."
C4_RoundTripNoDot ==
    \A i \in IssuancesOfLast :
        (last.at = i.at /\ HasNoDot(i.user)) => last.out = Value(i.user)

C4_DottedUserRejected ==
    \E i \in IssuancesOfLast :
        /\ last.at = i.at
        /\ ~HasNoDot(i.user)
        /\ last.out = NoneResult

\* C5: validate_state never raises, and returns None for every string that is not a
\* well-formed token signed with the manager's secret; an issued token whose
\* signature was altered is among them.
C5_RejectsUnsigned ==
    /\ last.out # Raised
    /\ ~WellFormedSigned(last.state) => last.out \in {NoneResult, NoCall.out}

C5_Witness ==
    /\ \E i \in issued :
          /\ last.state = AlterSignature(i.tok)
          /\ HasNoDot(i.user)
          /\ last.at - i.at <= ttl
    /\ last.out = NoneResult

\* C6: a correctly signed token presented when now - issued_at > ttl_seconds is
\* rejected, although its signature is valid.
C6_ExpiredRejected ==
    \A i \in IssuancesOfLast : last.at - i.at > ttl => last.out = NoneResult

C6_Witness ==
    /\ ttl = DefaultTtlSeconds
    /\ \E i \in IssuancesOfLast :
          /\ HasNoDot(i.user)
          /\ last.at - i.at = ttl + 1
    /\ last.out = NoneResult

\* the boundary of C6: a token exactly ttl_seconds old is still accepted
C6_AtTtlAccepted ==
    /\ ttl = DefaultTtlSeconds
    /\ \E i \in IssuancesOfLast :
          /\ last.at - i.at = ttl
          /\ last.out = Value(i.user)

\* C7: with ttl_seconds = 0 a token is rejected even when it is validated in the
\* second it was issued in (an age that has reached the TTL counts as expired).
C7_ZeroTtlRejected ==
    \A i \in IssuancesOfLast :
        (ttl = 0 /\ last.at = i.at /\ HasNoDot(i.user)) => last.out = NoneResult

(***************************************************************************)
(* The token store: TokenRepository over the table google_calendar_tokens. *)
(* Every method is one statement against the store; a statement that the   *)
(* store fails (ok = FALSE) raises inside the method.                      *)
(***************************************************************************)
Users == {<<"u1">>, <<"u2">>}
Accounts == {"g1", "g2"}
Procs == 1..MaxProcs

NoTime == -1        \* a NULL timestamp
NoError == ""       \* a NULL last_error
NoRow == [id |-> 0]

\* .single(): the one matching row, an exception unless exactly one matches
Single(matching) ==
    IF Cardinality(matching) = 1 THEN CHOOSE r \in matching : TRUE ELSE NoRow

\* a slip of get_by_user_id: the is_active filter left out
GetByUserIdAnyRow(T, user_id, ok) ==
    IF ~ok THEN NoRow
    ELSE Single({r \in T : r.user_id = user_id})

\* get_by_user_id: None when the query raises
GetByUserId(T, user_id, ok) ==
    IF ~ok THEN NoRow
    ELSE Single({r \in T : r.user_id = user_id /\ r.is_active})

\* get_by_google_account: None when the query raises
GetByGoogleAccount(T, google_account_id, ok) ==
    IF ~ok THEN NoRow
    ELSE Single({r \in T : r.google_account_id = google_account_id /\ r.is_active})

\* the row create() inserts: the GoogleCalendarTokenCreate fields, connected_at,
\* and the defaults of the other columns
NewRow(id, user_id, google_account_id, secret, expires_at, t) ==
    [id |-> id,
     user_id |-> user_id,
     google_account_id |-> google_account_id,
     encrypted_refresh_token |-> secret,
     encryption_nonce |-> secret,
     encryption_key_id |-> <<MasterKey>>,
     access_token_expires_at |-> expires_at,
     is_active |-> TRUE,
     last_error |-> NoError,
     connected_at |-> t,
     revoked_at |-> NoTime,
     updated_at |-> NoTime]

\* create (the insert raises when the store fails)
Create(T, row, ok) == IF ok THEN T \cup {row} ELSE T

\* a slip of update_expiry: the error of an earlier refresh is cleared
UpdateExpiryClearsError(T, user_id, expires_at, t, ok) ==
    IF ~ok THEN T
    ELSE {IF r.user_id = user_id
          THEN [r EXCEPT !.access_token_expires_at = expires_at, !.updated_at = t,
                         !.last_error = NoError]
          ELSE r : r \in T}

\* update_expiry: every row of the user
UpdateExpiry(T, user_id, expires_at, t, ok) ==
    IF ~ok THEN T
    ELSE {IF r.user_id = user_id
          THEN [r EXCEPT !.access_token_expires_at = expires_at, !.updated_at = t]
          ELSE r : r \in T}

\* a slip of mark_revoked: the secret is wiped with the flag
MarkRevokedWipesSecret(T, user_id, t, ok) ==
    IF ~ok THEN T
    ELSE {IF r.user_id = user_id
          THEN [r EXCEPT !.is_active = FALSE, !.revoked_at = t, !.updated_at = t,
                         !.encrypted_refresh_token = 0]
          ELSE r : r \in T}

\* mark_revoked: every row of the user
MarkRevoked(T, user_id, t, ok) ==
    IF ~ok THEN T
    ELSE {IF r.user_id = user_id
          THEN [r EXCEPT !.is_active = FALSE, !.revoked_at = t, !.updated_at = t]
          ELSE r : r \in T}

\* delete: every row of the user
Delete(T, user_id, ok) ==
    IF ~ok THEN T ELSE {r \in T : r.user_id # user_id}

\* set_error: every row of the user
SetError(T, user_id, error, t, ok) ==
    IF ~ok THEN T
    ELSE {IF r.user_id = user_id
          THEN [r EXCEPT !.last_error = error, !.updated_at = t]
          ELSE r : r \in T}

(***************************************************************************)
(* The requests.  A request is served by one worker slot; between two of   *)
(* its calls to the store or to the provider the other slots may run.      *)
(* calls is the log of the outbound calls and store writes a request made. *)
(***************************************************************************)
IdleProc ==
    [pc |-> "idle", kind |-> "", user |-> <<>>, state |-> <<>>, code |-> "",
     account |-> "", tok |-> 0, expired |-> FALSE, outcome |-> "",
     expiry |-> NoTime, ret |-> TRUE, res |-> "", msg |-> "", calls |-> {},
     conflict |-> FALSE, cancelled |-> FALSE, read_error |-> ""]

\* the state parameters a callback may arrive with: tokens generate_state handed
\* out up to now, such tokens with the signature altered, and text that is no token
LcStates ==
    {GenerateState(SecretKey, "r1", u, t) : u \in Users, t \in 0..now}
        \cup {AlterSignature(GenerateState(SecretKey, "r1", u, now)) : u \in Users}
        \cup {<<"invalid-state">>}

\* the authorization codes: one the provider issued for an account, or a bad one
Codes == Accounts \cup {"bad"}

LcInit ==
    /\ now = 0
    /\ ttl = StateTtlSetting
    /\ issued = {}
    /\ last = NoCall
    /\ rows = {}
    /\ nextId = 1
    /\ proc = [p \in Procs |-> IdleProc]
    /\ started = 0
    /\ CryptIdle
    /\ avail = NoAvail
    /\ CalIdle

Step(p, q) == proc' = [proc EXCEPT ![p] = q]

\* the request ends: its locals are gone, its outcome and its log stay
Done(q, res, msg) ==
    [IdleProc EXCEPT !.pc = "done", !.kind = q.kind, !.user = q.user,
                     !.state = q.state,
                     !.outcome = q.outcome, !.ret = q.ret, !.calls = q.calls,
                     !.conflict = q.conflict, !.cancelled = q.cancelled,
                     !.read_error = q.read_error,
                     !.res = res, !.msg = msg]

\* requests are handed to the first free slot
FirstFree(p) == proc[p].pc = "idle" /\ \A q \in 1..(p - 1) : proc[q].pc # "idle"

Arrive(p) == FirstFree(p) /\ started < MaxRequests /\ started' = started + 1

\* a request for an access credential arrives (any CalendarService operation)
StartRefresh(p, user_id) ==
    /\ Arrive(p)
    /\ Step(p, [IdleProc EXCEPT !.pc = "rf_get", !.kind = "refresh", !.user = user_id])
    /\ UNCHANGED <<now, ttl, smVars, rows, nextId, cryptVars, avail, calVars>>

\* POST /auth/revoke arrives
StartRevoke(p, user_id) ==
    /\ Arrive(p)
    /\ Step(p, [IdleProc EXCEPT !.pc = "rv_get", !.kind = "revoke", !.user = user_id])
    /\ UNCHANGED <<now, ttl, smVars, rows, nextId, cryptVars, avail, calVars>>

\* GET /auth/callback arrives
StartCallback(p, state, code) ==
    /\ Arrive(p)
    /\ Step(p, [IdleProc EXCEPT !.pc = "cb_validate", !.kind = "callback",
                                !.state = state, !.code = code])
    /\ UNCHANGED <<now, ttl, smVars, rows, nextId, cryptVars, avail, calVars>>

\* the response is sent; the slot is free again
Finish(p) ==
    /\ proc[p].pc = "done"
    /\ Step(p, IdleProc)
    /\ UNCHANGED <<now, ttl, smVars, rows, nextId, started, cryptVars, avail, calVars>>

LcTick ==
    /\ now < MaxTime
    /\ now' = now + 1
    /\ UNCHANGED <<ttl, smVars, lcVars, cryptVars, avail, calVars>>

(***************************************************************************)
(* CalendarService._get_calendar_client                                    *)
(***************************************************************************)
IsExpired(row, t) ==
    row.access_token_expires_at = NoTime \/ row.access_token_expires_at <= t

\* get_by_user_id, decrypt, and credentials.refresh() is called
RfGet(p, ok, decryptOk) ==
    LET q == proc[p]
        token == GetByUserId(rows, q.user, ok)
    IN
    /\ q.pc = "rf_get"
    /\ IF token.id = 0
         THEN Step(p, Done(q, "CalendarNotConnectedError", ""))
       ELSE IF ~decryptOk
         THEN Step(p, Done(q, "TokenEncryptionError", ""))
       ELSE Step(p, [q EXCEPT !.pc = "rf_refresh", !.tok = token.id,
                              !.expired = IsExpired(token, now),
                              !.read_error = token.last_error,
                              !.calls = @ \cup {"refresh"}])
    /\ UNCHANGED <<now, ttl, smVars, rows, nextId, started, cryptVars, avail, calVars>>

RefreshOutcomes == {"ok", "ok_no_expiry", "failed", "timeout"}

\* a slip of _get_calendar_client: a timeout is not taken for a failure
RfResponseTimeoutIgnored(p, outcome) ==
    LET q == proc[p] IN
    /\ q.pc = "rf_refresh"
    /\ IF outcome = "ok"
         THEN Step(p, [q EXCEPT !.pc = "rf_update", !.outcome = outcome,
                                !.expiry = now + AccessLifetime])
       ELSE IF outcome \in {"ok_no_expiry", "timeout"}
         THEN Step(p, [Done(q, "client", "") EXCEPT !.outcome = outcome])
       ELSE Step(p, [q EXCEPT !.pc = "rf_seterr", !.outcome = outcome])
    /\ UNCHANGED <<now, ttl, smVars, rows, nextId, started, cryptVars, avail, calVars>>

\* credentials.refresh() returns or raises
RfResponse(p, outcome) ==
    LET q == proc[p] IN
    /\ q.pc = "rf_refresh"
    /\ IF outcome = "ok"
         THEN Step(p, [q EXCEPT !.pc = "rf_update", !.outcome = outcome,
                                !.expiry = now + AccessLifetime])
       ELSE IF outcome = "ok_no_expiry"
         THEN Step(p, [Done(q, "client", "") EXCEPT !.outcome = outcome])
       ELSE Step(p, [q EXCEPT !.pc = "rf_seterr", !.outcome = outcome])
    /\ UNCHANGED <<now, ttl, smVars, rows, nextId, started, cryptVars, avail, calVars>>

\* update_expiry, and the client is returned
RfUpdateExpiry(p, ok) ==
    LET q == proc[p] IN
    /\ q.pc = "rf_update"
    /\ rows' = UpdateExpiry(rows, q.user, q.expiry, now, ok)
    /\ Step(p, [Done(q, "client", "") EXCEPT !.ret = ok,
                                             !.calls = @ \cup {"update_expiry"}])
    /\ UNCHANGED <<now, ttl, smVars, nextId, started, cryptVars, avail, calVars>>

\* set_error, and TokenExpiredError is raised
RfSetError(p, ok) ==
    LET q == proc[p] IN
    /\ q.pc = "rf_seterr"
    /\ rows' = SetError(rows, q.user, q.outcome, now, ok)
    /\ Step(p, [Done(q, "TokenExpiredError", "Failed to refresh access token")
                    EXCEPT !.ret = ok, !.calls = @ \cup {"set_error"}])
    /\ UNCHANGED <<now, ttl, smVars, nextId, started, cryptVars, avail, calVars>>

(***************************************************************************)
(* AuthService.handle_callback                                             *)
(***************************************************************************)
\* "if not user_id": None and the empty string are refused
Truthy(r) == r.tag = "value" /\ r.v # <<>>

\* an active row of the account held by another user (what the ownership check is for)
OwnedByOther(T, google_account_id, user_id) ==
    \E r \in T : /\ r.is_active
                 /\ r.google_account_id = google_account_id
                 /\ r.user_id # user_id

\* a slip of handle_callback: the code is exchanged before the state is looked at
CbValidateExchangeFirst(p) ==
    LET q == proc[p]
        r == ValidateState(SecretKey, ttl, q.state, now)
    IN
    /\ q.pc = "cb_validate"
    /\ IF q.code \notin Accounts
         THEN Step(p, [Done(q, "Exception", "") EXCEPT !.calls = @ \cup {"exchange"}])
       ELSE IF ~Truthy(r)
         THEN Step(p, [Done(q, "OAuthStateError", "Invalid or expired state parameter")
                          EXCEPT !.calls = @ \cup {"exchange", "userinfo"}])
       ELSE Step(p, [q EXCEPT !.pc = "cb_check", !.user = r.v,
                              !.account = q.code,
                              !.expiry = now + AccessLifetime,
                              !.calls = @ \cup {"exchange", "userinfo"}])
    /\ UNCHANGED <<now, ttl, smVars, rows, nextId, started, cryptVars, avail, calVars>>

\* validate_state; then exchange_code and get_user_info at the provider
CbValidate(p) ==
    LET q == proc[p]
        r == ValidateState(SecretKey, ttl, q.state, now)
    IN
    /\ q.pc = "cb_validate"
    /\ IF ~Truthy(r)
         THEN Step(p, Done(q, "OAuthStateError", "Invalid or expired state parameter"))
       ELSE IF q.code \notin Accounts
         THEN Step(p, [Done(q, "Exception", "") EXCEPT !.user = r.v,
                                                       !.calls = @ \cup {"exchange"}])
       ELSE Step(p, [q EXCEPT !.pc = "cb_check", !.user = r.v,
                              !.account = q.code,
                              !.expiry = now + AccessLifetime,
                              !.calls = @ \cup {"exchange", "userinfo"}])
    /\ UNCHANGED <<now, ttl, smVars, rows, nextId, started, cryptVars, avail, calVars>>

\* get_by_google_account and the ownership check
CbCheck(p, ok) ==
    LET q == proc[p]
        existing == GetByGoogleAccount(rows, q.account, ok)
        owned == OwnedByOther(rows, q.account, q.user)
    IN
    /\ q.pc = "cb_check"
    /\ IF existing.id # 0 /\ existing.user_id # q.user
         THEN Step(p, [Done(q, "OAuthStateError",
                            "This Google account is already connected to another user")
                          EXCEPT !.conflict = owned])
       ELSE Step(p, [q EXCEPT !.pc = "cb_get", !.conflict = owned])
    /\ UNCHANGED <<now, ttl, smVars, rows, nextId, started, cryptVars, avail, calVars>>

\* get_by_user_id: is the user reconnecting?
CbGet(p, ok) ==
    LET q == proc[p]
        existing_user_token == GetByUserId(rows, q.user, ok)
    IN
    /\ q.pc = "cb_get"
    /\ Step(p, [q EXCEPT !.pc = IF existing_user_token.id # 0
                                  THEN "cb_delete" ELSE "cb_create",
                         !.tok = existing_user_token.id])
    /\ UNCHANGED <<now, ttl, smVars, rows, nextId, started, cryptVars, avail, calVars>>

\* delete(user_id), its result not looked at
CbDelete(p, ok) ==
    LET q == proc[p] IN
    /\ q.pc = "cb_delete"
    /\ rows' = Delete(rows, q.user, ok)
    /\ Step(p, [q EXCEPT !.pc = "cb_create", !.ret = ok,
                         !.calls = @ \cup {"delete"}])
    /\ UNCHANGED <<now, ttl, smVars, nextId, started, cryptVars, avail, calVars>>

\* create(token_data); the response when it returns, its exception when it raises
CbCreate(p, ok) ==
    LET q == proc[p]
        row == NewRow(nextId, q.user, q.account, nextId, q.expiry, now)
    IN
    /\ q.pc = "cb_create"
    /\ rows' = Create(rows, row, ok)
    /\ nextId' = IF ok THEN nextId + 1 ELSE nextId
    /\ Step(p, [Done(q, IF ok THEN "connected" ELSE "Exception", "")
                    EXCEPT !.calls = @ \cup {"create"}])
    /\ UNCHANGED <<now, ttl, smVars, started, cryptVars, avail, calVars>>

(***************************************************************************)
(* AuthService.revoke_connection                                           *)
(***************************************************************************)
\* get_by_user_id
RvGet(p, ok) ==
    LET q == proc[p]
        token == GetByUserId(rows, q.user, ok)
    IN
    /\ q.pc = "rv_get"
    /\ IF token.id = 0
         THEN Step(p, Done(q, "no_connection", "No Google Calendar connection found"))
       ELSE Step(p, [q EXCEPT !.pc = "rv_upstream", !.tok = token.id])
    /\ UNCHANGED <<now, ttl, smVars, rows, nextId, started, cryptVars, avail, calVars>>

UpstreamOutcomes == {"revoked", "decrypt_failed", "revoke_refused", "revoke_unreachable"}

\* a slip of revoke_connection: the upstream failure is not caught
RvUpstreamAborts(p, outcome) ==
    LET q == proc[p] IN
    /\ q.pc = "rv_upstream"
    /\ IF outcome = "decrypt_failed"
         THEN Step(p, [Done(q, "TokenEncryptionError", "") EXCEPT !.outcome = outcome])
         ELSE Step(p, [q EXCEPT !.pc = "rv_mark", !.outcome = outcome,
                                !.calls = @ \cup {"revoke"}])
    /\ UNCHANGED <<now, ttl, smVars, rows, nextId, started, cryptVars, avail, calVars>>

\* decrypt and revoke_token inside try/except: whatever happens, go on
RvUpstream(p, outcome) ==
    LET q == proc[p] IN
    /\ q.pc = "rv_upstream"
    /\ Step(p, [q EXCEPT !.pc = "rv_mark", !.outcome = outcome,
                         !.calls = IF outcome = "decrypt_failed"
                                   THEN @ ELSE @ \cup {"revoke"}])
    /\ UNCHANGED <<now, ttl, smVars, rows, nextId, started, cryptVars, avail, calVars>>

\* mark_revoked, its result not looked at, and success is reported
RvMark(p, ok) ==
    LET q == proc[p] IN
    /\ q.pc = "rv_mark"
    /\ rows' = MarkRevoked(rows, q.user, now, ok)
    /\ Step(p, [Done(q, "success", "Google Calendar disconnected successfully")
                    EXCEPT !.ret = ok, !.calls = @ \cup {"mark_revoked"}])
    /\ UNCHANGED <<now, ttl, smVars, nextId, started, cryptVars, avail, calVars>>

Next ==
    \/ \E p \in Procs, u \in Users : StartRefresh(p, u)
    \/ \E p \in Procs, u \in Users : StartRevoke(p, u)
    \/ \E p \in Procs, s \in LcStates, c \in Codes : StartCallback(p, s, c)
    \/ \E p \in Procs : Finish(p)
    \/ LcTick
    \/ \E p \in Procs, ok \in BOOLEAN, d \in BOOLEAN : RfGet(p, ok, d)
    \/ \E p \in Procs, o \in RefreshOutcomes : RfResponse(p, o)
    \/ \E p \in Procs, ok \in BOOLEAN : RfUpdateExpiry(p, ok)
    \/ \E p \in Procs, ok \in BOOLEAN : RfSetError(p, ok)
    \/ \E p \in Procs : CbValidate(p)
    \/ \E p \in Procs, ok \in BOOLEAN : CbCheck(p, ok)
    \/ \E p \in Procs, ok \in BOOLEAN : CbGet(p, ok)
    \/ \E p \in Procs, ok \in BOOLEAN : CbDelete(p, ok)
    \/ \E p \in Procs, ok \in BOOLEAN : CbCreate(p, ok)
    \/ \E p \in Procs, ok \in BOOLEAN : RvGet(p, ok)
    \/ \E p \in Procs, o \in UpstreamOutcomes : RvUpstream(p, o)
    \/ \E p \in Procs, ok \in BOOLEAN : RvMark(p, ok)

Spec == LcInit /\ [][Next]_vars

(***************************************************************************)
(* Claims about the lifecycle (checked under Spec).                        *)
(***************************************************************************)
StoreWrites == {"create", "delete", "update_expiry", "set_error", "mark_revoked"}

\* p takes a step from the place pc of its handler
Leaves(p, pc) == proc[p].pc = pc /\ proc'[p].pc # pc

RowsOf(T, user_id) == {r \in T : r.user_id = user_id}

NoActiveRow(T, user_id) == \A r \in RowsOf(T, user_id) : ~r.is_active

\* requests for u's access credential that read an expired credential and whose
\* outbound refresh was made while the others were still being served
RefreshingExpired(u) ==
    {p \in Procs : /\ proc[p].kind = "refresh"
                   /\ proc[p].user = u
                   /\ proc[p].pc \in {"rf_refresh", "rf_update", "rf_seterr"}
                   /\ proc[p].expired
                   /\ "refresh" \in proc[p].calls}

\* C1: when N >= 2 requests for the same user's access credential run at the same
\* time while the credential is expired, one outbound refresh call is made, not N.
C1_OneRefreshCall ==
    \A u \in Users : Cardinality(RefreshingExpired(u)) <= 1

\* C2: completing authorization for user B with an account whose active row belongs
\* to another user A fails with AccountConflictError and writes nothing to the store.
C2_AccountConflictError ==
    \A p \in Procs :
        (proc[p].pc = "done" /\ proc[p].kind = "callback" /\ proc[p].conflict)
            => /\ proc[p].res = "AccountConflictError"
               /\ proc[p].calls \cap StoreWrites = {}

\* C2, as far as the code goes: a callback refused by the ownership check wrote nothing
C2_RefusedWritesNothing ==
    \A p \in Procs :
        (proc[p].pc = "done" /\ proc[p].kind = "callback"
            /\ proc[p].msg = "This Google account is already connected to another user")
            => /\ proc[p].res = "OAuthStateError"
               /\ proc[p].conflict
               /\ proc[p].calls \cap StoreWrites = {}

\* the second field from the end of a token: its issue time
IssuedAt(state) ==
    LET payload == SubSeq(state, 1, Max(DotIndexes(state)) - 1)
    IN  StrToInt(SubSeq(payload, Max(DotIndexes(payload)) + 1, Len(payload)))

\* malformed, tampered or expired
InvalidState(state, t) ==
    \/ ~WellFormedSigned(state)
    \/ t - IssuedAt(state) > ttl

\* C3: handle_callback called with a state that fails validation (malformed, tampered
\* or expired) raises OAuthStateError before any code exchange is attempted and
\* without creating, deleting or modifying any row.
C3_InvalidStateRejected ==
    [][\A p \in Procs :
          (Leaves(p, "cb_validate") /\ InvalidState(proc[p].state, now))
              => /\ proc'[p].pc = "done"
                 /\ proc'[p].res = "OAuthStateError"
                 /\ proc'[p].calls = {}
                 /\ rows' = rows
                 /\ nextId' = nextId]_vars

C3_Witness ==
    \E p \in Procs :
        /\ proc[p].pc = "done"
        /\ proc[p].kind = "callback"
        /\ proc[p].res = "OAuthStateError"
        /\ proc[p].msg = "Invalid or expired state parameter"
        /\ proc[p].calls = {}
        /\ \E r \in rows : r.is_active

FailedOutcomes == {"failed", "timeout"}

C9_NotConnected ==
    [][/\ \A p \in Procs :
             (Leaves(p, "rf_get") /\ NoActiveRow(rows, proc[p].user))
                 => /\ proc'[p].pc = "done"
                    /\ proc'[p].res = "CalendarNotConnectedError"
                    /\ proc'[p].calls = {}
                    /\ rows' = rows
       /\ \A u \in Users :
             (NoActiveRow(rows, u) /\ ~NoActiveRow(rows', u))
                 => \E p \in Procs : /\ Leaves(p, "cb_create")
                                     /\ proc[p].user = u
                                     /\ proc'[p].res = "connected"]_vars

C9_Witness ==
    \E p \in Procs :
        /\ proc[p].pc = "done"
        /\ proc[p].kind = "refresh"
        /\ proc[p].res = "CalendarNotConnectedError"
        /\ proc[p].calls = {}
        /\ RowsOf(rows, proc[p].user) # {}
        /\ \A r \in RowsOf(rows, proc[p].user) : ~r.is_active /\ r.revoked_at # NoTime

MaxEncrypts == 2    \* encrypt calls followed in one run

\* "", "A", "é" (two bytes), and a lone surrogate (which utf-8 cannot encode):
\* ciphertexts of 16, 17 and 18 bytes
Plaintexts == {<<>>, <<65>>, <<233>>, <<55296>>}

\* the values os.urandom(12) may return: any 12 bytes; two of them are followed
Nonces == {[i \in 1..NonceLen |-> 0],
           [i \in 1..NonceLen |-> IF i = NonceLen THEN 1 ELSE 0]}

\* the text s with the character at one place changed: to the next character
\* of the alphabet at any place, to one outside the alphabet at either end
Altered(s) ==
    (UNION {{[s EXCEPT ![i] = (s[i] + 1) % 64]} : i \in 1..Len(s)}
        \cup {[s EXCEPT ![i] = B64Junk] : i \in {1, Len(s)} \cap (1..Len(s))}) \ {s}

\* the pairs encrypt has returned so far
Returned == {<<sealed[i].out.v[1], sealed[i].out.v[2]>> :
                i \in {k \in 1..Len(sealed) : sealed[k].out.tag = "value"}}

\* the pairs another encryptor (another key) returns for the same calls
UnderForeignKey ==
    LET outs == {Encrypt(ForeignKey, sealed[i].nonce, sealed[i].plaintext) :
                    i \in 1..Len(sealed)}
    IN  {<<o.v[1], o.v[2]>> : o \in {x \in outs : x.tag = "value"}}

Malformed == {<<<<>>, <<>>>>, <<<<B64Junk>>, <<0>>>>, <<<<0, 0, 0, 0>>, B64Encode(<<0>>)>>}

Pairs ==
    Returned \cup UnderForeignKey \cup Malformed
        \cup {<<p[1], q[2]>> : p, q \in Returned}
        \cup UNION {{<<c, q[2]>> : c \in Altered(q[1])} : q \in Returned}
        \cup UNION {{<<q[1], n>> : n \in Altered(q[2])} : q \in Returned}

CrInit ==
    /\ sealed = <<>>
    /\ opened = NoDecrypt
    /\ avail = NoAvail
    /\ CalIdle
    /\ now = 0
    /\ ttl = DefaultTtlSeconds
    /\ issued = {}
    /\ last = NoCall
    /\ rows = {}
    /\ nextId = 1
    /\ proc = [p \in {} |-> p]
    /\ started = 0

\* encrypt(plaintext); os.urandom(12) returns nonce
CrEncrypt(plaintext, nonce) ==
    /\ Len(sealed) < MaxEncrypts
    /\ sealed' = Append(sealed, [plaintext |-> plaintext, nonce |-> nonce,
                                 out |-> Encrypt(MasterKey, nonce, plaintext)])
    /\ UNCHANGED <<opened, now, ttl, smVars, lcVars, avail, calVars>>

\* decrypt(ciphertext_b64, nonce_b64).  decrypt reads the key and its two
\* arguments and writes nothing, so a run follows one call of it: a second call
\* would return what a first call with the same arguments returns.
CrDecrypt(ciphertext_b64, nonce_b64) ==
    /\ opened.calls = 0
    /\ opened' = [ciphertext |-> ciphertext_b64, nonce |-> nonce_b64,
                  calls |-> opened.calls + 1,
                  out |-> Decrypt(MasterKey, ciphertext_b64, nonce_b64)]
    /\ UNCHANGED <<sealed, now, ttl, smVars, lcVars, avail, calVars>>

CrNext ==
    \/ \E p \in Plaintexts, n \in Nonces : CrEncrypt(p, n)
    \/ \E pr \in Pairs : CrDecrypt(pr[1], pr[2])

SpecCrypt == CrInit /\ [][CrNext]_vars

\* the encrypt calls that returned the pair decrypt was last called with
SealedAsOpened ==
    {i \in 1..Len(sealed) : /\ sealed[i].out.tag = "value"
                            /\ sealed[i].out.v[1] = opened.ciphertext
                            /\ sealed[i].out.v[2] = opened.nonce}

\* C11: decrypt, given the (ciphertext, nonce) pair an encrypt call of the
\* same encryptor returned, returns that call's plaintext.
C11_RoundTrip ==
    \A i \in SealedAsOpened : opened.out = Value(sealed[i].plaintext)

\* a returned pair of a two-byte character was decrypted
C11_Witness ==
    \E i \in SealedAsOpened :
        sealed[i].plaintext = <<233>> /\ opened.out = Value(<<233>>)

\* C12: no two encrypt calls use the same nonce, so two encryptions of one
\* plaintext never return the same ciphertext or the same nonce.
C12_NoncesNeverRepeat ==
    \A i, j \in 1..Len(sealed) :
        (i # j /\ sealed[i].out.tag = "value" /\ sealed[j].out.tag = "value")
            => /\ sealed[i].out.v[2] # sealed[j].out.v[2]
               /\ sealed[i].plaintext = sealed[j].plaintext
                    => sealed[i].out.v[1] # sealed[j].out.v[1]

\* with distinct nonces the ciphertexts of one plaintext differ
C12_FreshNonceFreshCiphertext ==
    \A i, j \in 1..Len(sealed) :
        (sealed[i].out.tag = "value" /\ sealed[j].out.tag = "value"
            /\ sealed[i].nonce # sealed[j].nonce)
            => sealed[i].out.v[1] # sealed[j].out.v[1]

\* C13: decrypt fails with TokenEncryptionError for every pair that is not
\* one encrypt returned under the same key (a changed character, malformed
\* input, another key).
C13_TamperRejected ==
    (opened.out.tag # "nocall" /\ SealedAsOpened = {}) => opened.out = Raised

\* decrypt never returns a plaintext that was not encrypted under the key
C13_NeverOtherPlaintext ==
    opened.out.tag = "value" =>
        \E i \in 1..Len(sealed) :
            /\ sealed[i].out.tag = "value"
            /\ opened.out.v = sealed[i].plaintext
            /\ B64Decode(opened.ciphertext) = B64Decode(sealed[i].out.v[1])
            /\ B64Decode(opened.nonce) = B64Decode(sealed[i].out.v[2])

\* a pair made under another key was refused
C13_ForeignKeyRefused ==
    /\ <<opened.ciphertext, opened.nonce>> \in UnderForeignKey
    /\ opened.out = Raised

(***************************************************************************)
(* CalendarService._calculate_free_slots.  A wall-clock time is the str    *)
(* "HH:MM", a sequence of code points, and times are compared as Python    *)
(* compares str: character by character.                                   *)
(***************************************************************************)
MaxBusy == 2        \* busy intervals in one call
MaxSpan == 2        \* hours followed after the default start of work

Zero == 48          \* ord("0")
Colon == 58         \* ord(":")
WorkStartDefault == 9       \* work_start = "09:00"

Hours == (WorkStartDefault - 1)..(WorkStartDefault + MaxSpan)

\* strftime("%H:%M") of a full hour
Strftime(h) == <<Zero + (h \div 10), Zero + (h % 10), Colon, Zero, Zero>>

\* the hour as a caller may write it without the leading zero ("9:00")
Unpadded(h) ==
    IF h < 10 THEN <<Zero + h, Colon, Zero, Zero>> ELSE Strftime(h)

\* int(s.split(":")[0]) of the times above
HourOf(s) == CHOOSE h \in 0..23 : s = Strftime(h) \/ s = Unpadded(h)

RECURSIVE StrLess(_, _)
\* a < b on str
StrLess(a, b) ==
    IF Len(b) = 0 THEN FALSE
    ELSE IF Len(a) = 0 THEN TRUE
    ELSE IF a[1] # b[1] THEN a[1] < b[1]
    ELSE StrLess(Tail(a), Tail(b))

\* max(a, b) on str
StrMax(a, b) == IF StrLess(a, b) THEN b ELSE a

AvailabilitySlot(start, end) == [start |-> start, end |-> end]

RECURSIVE SortedByStart(_)
\* sorted(busy_slots, key=lambda x: x.start): stable
SortedByStart(slots) ==
    IF Len(slots) <= 1 THEN slots
    ELSE
      LET init == SortedByStart(SubSeq(slots, 1, Len(slots) - 1))
          x == slots[Len(slots)]
          \* x goes after every slot whose start is not greater than its own
          k == Cardinality({i \in 1..Len(init) : ~StrLess(x.start, init[i].start)})
      IN  SubSeq(init, 1, k) \o <<x>> \o SubSeq(init, k + 1, Len(init))

RECURSIVE WalkBusy(_, _, _, _)
\* the for loop of _calculate_free_slots, from the i-th busy slot on
WalkBusy(sorted_busy, i, current_start, free_slots) ==
    IF i > Len(sorted_busy)
      THEN [current_start |-> current_start, free_slots |-> free_slots]
    ELSE
      LET busy == sorted_busy[i] IN
      WalkBusy(sorted_busy, i + 1, StrMax(current_start, busy.end),
               IF StrLess(current_start, busy.start)
                 THEN Append(free_slots, AvailabilitySlot(current_start, busy.start))
               ELSE free_slots)

\* _calculate_free_slots(busy_slots, work_start, work_end)
CalculateFreeSlots(busy_slots, work_start, work_end) ==
    IF Len(busy_slots) = 0 THEN <<AvailabilitySlot(work_start, work_end)>>
    ELSE
      LET w == WalkBusy(SortedByStart(busy_slots), 1, work_start, <<>>) IN
      IF StrLess(w.current_start, work_end)
        THEN Append(w.free_slots, AvailabilitySlot(w.current_start, work_end))
      ELSE w.free_slots

\* the busy intervals: start < end, as get_availability formats them
BusyIntervals ==
    {AvailabilitySlot(Strftime(p[1]), Strftime(p[2])) :
        p \in {q \in Hours \X Hours : q[1] < q[2]}}

BusyLists == UNION {[1..n -> BusyIntervals] : n \in 0..MaxBusy}

\* the work windows, as the caller wrote them: work_start before work_end
Windows ==
    UNION {{Strftime(p[1]), Unpadded(p[1])} \X {Strftime(p[2]), Unpadded(p[2])} :
              p \in {q \in Hours \X Hours : q[1] < q[2]}}

AvInit ==
    /\ avail \in {[NoAvail EXCEPT !.busy_slots = b, !.work_start = w[1], !.work_end = w[2]] :
                     b \in BusyLists, w \in Windows}
    /\ CryptIdle
    /\ CalIdle
    /\ now = 0
    /\ ttl = DefaultTtlSeconds
    /\ issued = {}
    /\ last = NoCall
    /\ rows = {}
    /\ nextId = 1
    /\ proc = [p \in {} |-> p]
    /\ started = 0

AvCalculate ==
    /\ ~avail.done
    /\ avail' = [avail EXCEPT
                    !.free_slots = CalculateFreeSlots(avail.busy_slots,
                                                      avail.work_start, avail.work_end),
                    !.done = TRUE]
    /\ UNCHANGED <<now, ttl, smVars, lcVars, cryptVars, calVars>>

AvNext == AvCalculate

SpecAvail == AvInit /\ [][AvNext]_vars

\* the hour h lies in one of the slots
Covered(h, slots) ==
    \E i \in 1..Len(slots) : HourOf(slots[i].start) <= h /\ h < HourOf(slots[i].end)

Complement(busy_slots, work_start, work_end, free_slots) ==
    LET ws == HourOf(work_start)
        we == HourOf(work_end)
    IN
    /\ \A h \in ws..(we - 1) : Covered(h, free_slots) <=> ~Covered(h, busy_slots)
    /\ \A i \in 1..Len(free_slots) :
          /\ ws <= HourOf(free_slots[i].start)
          /\ HourOf(free_slots[i].start) < HourOf(free_slots[i].end)
          /\ HourOf(free_slots[i].end) <= we
    /\ \A i \in 1..(Len(free_slots) - 1) :
          HourOf(free_slots[i].end) < HourOf(free_slots[i + 1].start)

IsPadded(s) == s = Strftime(HourOf(s))

\* C14: for a work window written "HH:MM", the free slots returned are
\* exactly the complement of the busy intervals within the window: an hour
\* of the window is free iff no busy interval holds it, no slot leaves the
\* window, and the slots are non-empty, ordered and apart.
C14_ExactComplement ==
    (avail.done /\ IsPadded(avail.work_start) /\ IsPadded(avail.work_end))
    => Complement(avail.busy_slots, avail.work_start, avail.work_end, avail.free_slots)

\* the result is the complement when the window is written "HH:MM" and no
\* busy interval starts after the end of work
C14_ComplementOfClippedBusy ==
    (/\ avail.done
     /\ IsPadded(avail.work_start) /\ IsPadded(avail.work_end)
     /\ \A i \in 1..Len(avail.busy_slots) :
           HourOf(avail.busy_slots[i].start) <= HourOf(avail.work_end))
    => Complement(avail.busy_slots, avail.work_start, avail.work_end, avail.free_slots)

\* a window written without the leading zero ("8:00") is compared as text
\* with the busy times: a window that is wholly busy is returned as free
C14_UnpaddedWindowMiscompared ==
    /\ avail.done
    /\ avail.work_start = Unpadded(WorkStartDefault - 1)
    /\ avail.work_end = Unpadded(WorkStartDefault)
    /\ avail.busy_slots = <<AvailabilitySlot(Strftime(8), Strftime(9))>>
    /\ avail.free_slots = <<AvailabilitySlot(avail.work_start, avail.work_end)>>

\* two overlapping busy intervals inside the window were merged
C14_MergedOverlap ==
    /\ avail.done
    /\ avail.work_start = Strftime(WorkStartDefault - 1)
    /\ avail.work_end = Strftime(WorkStartDefault + 2)
    /\ avail.busy_slots = <<AvailabilitySlot(Strftime(9), Strftime(11)),
                            AvailabilitySlot(Strftime(9), Strftime(10))>>
    /\ avail.free_slots = <<AvailabilitySlot(Strftime(8), Strftime(9))>>

(***************************************************************************)
(* Calendar operations: the event routes of the public API (a user) and of *)
(* the internal API (an automated agent), CalendarService.create_event,    *)
(* update_event, delete_event and get_availability, the provider and the   *)
(* sync audit log.  One request is followed at a time.                     *)
(***************************************************************************)
MaxOps == 2         \* requests followed in one run
MaxEvents == 2      \* events a request may name

Mutations == {"create_event", "update_event", "delete_event"}
Operations == Mutations \cup {"get_availability"}
Endpoints == {"public", "internal"}
Sources == {"ai_agent", "system"}       \* InternalEventMetadata.source
EventIds == {<<"event", k>> : k \in 1..MaxEvents}
\* the routes there are: availability is served by the internal API only
HasRoute(endpoint, operation) == operation \in Mutations \/ endpoint = "internal"

\* the exceptions that are CalendarServiceError, and their status_code
ServiceErrors == {"CalendarNotConnectedError", "TokenExpiredError",
                  "TokenEncryptionError", "GoogleAPIError"}

StatusCode(exc) ==
    CASE exc = "CalendarNotConnectedError" -> 400
      [] exc = "TokenExpiredError" -> 401
      [] exc = "GoogleAPIError" -> 502
      [] OTHER -> 500

\* the route's argument initiated_by
InitiatedBy(endpoint, operation, source) ==
    IF endpoint = "public" THEN "user"
    ELSE IF operation = "create_event" THEN source
    ELSE "ai_agent"

\* a request arrives at a route
OpStart(endpoint, operation, user_id, event_id, source) ==
    /\ req.pc \in {"idle", "done"}
    /\ req.n < MaxOps
    /\ HasRoute(endpoint, operation)
    /\ (operation \in {"create_event", "get_availability"}) = (event_id = NoEvent)
    /\ (endpoint = "public" \/ operation # "create_event") => source = "ai_agent"
    /\ req' = [IdleReq EXCEPT !.pc = "client", !.n = req.n + 1, !.endpoint = endpoint,
                              !.operation = operation, !.user_id = user_id,
                              !.event_id = event_id,
                              !.initiated_by = InitiatedBy(endpoint, operation, source)]
    /\ UNCHANGED <<effects, sync_log, coreVars, cryptVars, avail>>

ClientOutcomes == {"client", "CalendarNotConnectedError", "TokenExpiredError",
                   "TokenEncryptionError"}

\* client = await self._get_calendar_client(user_id)
OpClient(outcome) ==
    /\ req.pc = "client"
    /\ req' = IF outcome = "client" THEN [req EXCEPT !.pc = "provider"]
              ELSE [req EXCEPT !.pc = "respond", !.exc = outcome]
    /\ UNCHANGED <<effects, sync_log, coreVars, cryptVars, avail>>

\* the provider answers; "lost": the change is made and the answer does not
\* arrive (the HTTP call raises something other than HttpError)
ProviderOutcomes == {"ok", "unauthorized", "http_error", "failed", "lost"}

\* _handle_api_error, and what is not an HttpError
ProviderError(outcome) ==
    CASE outcome = "unauthorized" -> "TokenExpiredError"
      [] outcome = "http_error" -> "GoogleAPIError"
      [] OTHER -> "Exception"

\* client.create_event / update_event / delete_event / get_freebusy
OpProvider(outcome) ==
    LET id == IF req.operation = "create_event" THEN <<"created", req.n>>
              ELSE req.event_id
        took_effect == req.operation \in Mutations /\ outcome \in {"ok", "lost"}
    IN
    /\ req.pc = "provider"
    /\ outcome = "lost" => req.operation \in Mutations
    /\ effects' = IF took_effect
                    THEN effects \cup {[user_id |-> req.user_id,
                                        operation |-> req.operation,
                                        event_id |-> id,
                                        initiated_by |-> req.initiated_by]}
                  ELSE effects
    /\ req' = IF outcome = "ok"
                THEN [req EXCEPT !.pc = IF req.operation \in Mutations THEN "log"
                                        ELSE "respond",
                                 !.event_id = id, !.applied = took_effect]
              ELSE [req EXCEPT !.pc = "respond", !.event_id = id,
                               !.applied = took_effect,
                               !.exc = ProviderError(outcome)]
    /\ UNCHANGED <<sync_log, coreVars, cryptVars, avail>>

\* await self.sync_log_repo.create(...): the insert, or the store's exception
OpLog(ok) ==
    /\ req.pc = "log"
    /\ sync_log' = IF ok
                     THEN Append(sync_log, [user_id |-> req.user_id,
                                            operation |-> req.operation,
                                            google_event_id |-> req.event_id,
                                            status |-> "success",
                                            initiated_by |-> req.initiated_by])
                   ELSE sync_log
    /\ req' = [req EXCEPT !.pc = "respond", !.exc = IF ok THEN "" ELSE "Exception"]
    /\ UNCHANGED <<effects, coreVars, cryptVars, avail>>

\* the try/except of the internal event routes
InternalEventResponse(exc) ==
    IF exc = "" THEN [status |-> 200, success |-> "true", error |-> ""]
    ELSE [status |-> 200, success |-> "false", error |-> exc]

\* calendar_service_error_handler, and the server's answer to other exceptions
ErrorHandler(exc) ==
    IF exc = "" THEN [status |-> 200, success |-> "absent", error |-> ""]
    ELSE IF exc \in ServiceErrors
      THEN [status |-> StatusCode(exc), success |-> "absent", error |-> exc]
    ELSE [status |-> 500, success |-> "absent", error |-> "Internal Server Error"]

\* the route returns
OpRespond ==
    /\ req.pc = "respond"
    /\ req' = [req EXCEPT
                 !.pc = "done",
                 !.response = IF req.endpoint = "internal" /\ req.operation \in Mutations
                                THEN InternalEventResponse(req.exc)
                              ELSE ErrorHandler(req.exc)]
    /\ UNCHANGED <<effects, sync_log, coreVars, cryptVars, avail>>

OpInit ==
    /\ effects = {}
    /\ sync_log = <<>>
    /\ req = IdleReq
    /\ CryptIdle
    /\ avail = NoAvail
    /\ now = 0
    /\ ttl = DefaultTtlSeconds
    /\ issued = {}
    /\ last = NoCall
    /\ rows = {}
    /\ nextId = 1
    /\ proc = [p \in {} |-> p]
    /\ started = 0

OpNext ==
    \/ \E e \in Endpoints, o \in Operations, u \in Users,
          id \in EventIds \cup {NoEvent}, s \in Sources : OpStart(e, o, u, id, s)
    \/ \E o \in ClientOutcomes : OpClient(o)
    \/ \E o \in ProviderOutcomes : OpProvider(o)
    \/ \E ok \in BOOLEAN : OpLog(ok)
    \/ OpRespond

SpecCalendar == OpInit /\ [][OpNext]_vars

\* the change was recorded in the sync audit log
Recorded(e) ==
    \E i \in 1..Len(sync_log) :
        /\ sync_log[i].user_id = e.user_id
        /\ sync_log[i].operation = e.operation
        /\ sync_log[i].google_event_id = e.event_id
        /\ sync_log[i].initiated_by = e.initiated_by

\* C15: once the request has been answered, every create, update or delete
\* that took effect at the provider has an entry in the sync audit log with
\* its user_id, operation, event id and initiated_by.
C15_EveryMutationRecorded ==
    req.pc \in {"idle", "done"} => \A e \in effects : Recorded(e)

\* the change of a request that returned without an exception is recorded,
\* for users and agents alike
C15_RecordedWhenReturned ==
    (req.pc = "done" /\ req.exc = "" /\ req.operation \in Mutations)
        => Recorded([user_id |-> req.user_id, operation |-> req.operation,
                     event_id |-> req.event_id, initiated_by |-> req.initiated_by])

\* an agent's change was made and recorded
C15_AgentChangeRecorded ==
    /\ req.pc = "done" /\ req.exc = "" /\ req.applied
    /\ req.initiated_by = "ai_agent"
    /\ Len(sync_log) = 1 /\ sync_log[1].initiated_by = "ai_agent"

\* C16: an internal endpoint answers every failed operation with the uniform
\* body {success: false, error} and no protocol-level error status.
C16_UniformFailure ==
    (req.pc = "done" /\ req.endpoint = "internal" /\ req.exc # "")
        => /\ req.response.status = 200
           /\ req.response.success = "false"
           /\ req.response.error # ""

\* the event endpoints of the internal API do so
C16_EventEndpointsUniform ==
    (req.pc = "done" /\ req.endpoint = "internal" /\ req.exc # ""
        /\ req.operation \in Mutations)
        => /\ req.response.status = 200
           /\ req.response.success = "false"
           /\ req.response.error # ""

\* the availability endpoint answered a user without a connection with 400
C16_AvailabilityNotConnected ==
    /\ req.pc = "done" /\ req.endpoint = "internal"
    /\ req.operation = "get_availability"
    /\ req.exc = "CalendarNotConnectedError"
    /\ req.response.status = 400 /\ req.response.success = "absent"

(***************************************************************************)
(* The credential records under concurrent requests and store failures.    *)
(***************************************************************************)
ActiveRows(T, user_id) == {r \in RowsOf(T, user_id) : r.is_active}

\* the requests whose outbound refresh call for u is in flight
RefreshInFlight(u) ==
    {p \in Procs : proc[p].pc = "rf_refresh" /\ proc[p].user = u}

\* C17: refresh is serialized per user: at most one outbound refresh call for
\* a given user is in flight at any time.
C17_RefreshSerialized ==
    \A u \in Users : Cardinality(RefreshInFlight(u)) <= 1

\* C18: no user has more than one active record, and a user whose
\* authorization has just completed has exactly one.
C18_OneActivePerUser ==
    [][/\ \A u \in Users : Cardinality(ActiveRows(rows', u)) <= 1
       /\ \A p \in Procs :
             (Leaves(p, "cb_create") /\ proc'[p].res = "connected")
                 => Cardinality(ActiveRows(rows', proc[p].user)) = 1]_vars

\* when every store call succeeds and one request runs at a time, the user
\* has one active record after authorization
C18_SequentialReconnect ==
    \E p \in Procs :
        /\ proc[p].pc = "done" /\ proc[p].res = "connected"
        /\ "delete" \in proc[p].calls /\ proc[p].ret
        /\ Cardinality(ActiveRows(rows, proc[p].user)) = 1

\* the users holding an active record of the account
Holders(T, google_account_id) ==
    {r.user_id : r \in {x \in T : x.is_active /\ x.google_account_id = google_account_id}}

\* C19: every google_account_id has active records for at most one user_id.
C19_OneUserPerAccount ==
    \A a \in Accounts : Cardinality(Holders(rows, a)) <= 1

\* C20: when handle_callback completes for a user with an active record, the
\* prior record is replaced: the new record is the user's only active one, and
\* at no step does the user have both the prior and the new record active.
C20_ReconnectReplaces ==
    [][\A p \in Procs :
          (Leaves(p, "cb_create") /\ proc'[p].res = "connected"
              /\ "delete" \in proc[p].calls)
              => \A r \in ActiveRows(rows', proc[p].user) : r.id = nextId]_vars

\* between delete and create no record of the user is active (not two)
C20_GapNotOverlap ==
    \E p \in Procs :
        /\ proc[p].pc = "cb_create" /\ "delete" \in proc[p].calls /\ proc[p].ret
        /\ ActiveRows(rows, proc[p].user) = {}

\* a reconnect whose delete the store refused (delete returns False, which
\* handle_callback does not look at) left the prior and the new record active
C20_FailedDeleteLeavesBoth ==
    \E p \in Procs :
        /\ proc[p].pc = "done" /\ proc[p].res = "connected"
        /\ "delete" \in proc[p].calls /\ ~proc[p].ret
        /\ Cardinality(ActiveRows(rows, proc[p].user)) = 2

\* the ownership check found nothing although another user held the account
\* (the lookup failed in the store, or ran before the other record was
\* created), and the account was given to a second user
C19_CheckPassedAccountShared ==
    \E p \in Procs :
        /\ proc[p].pc = "done" /\ proc[p].res = "connected" /\ proc[p].conflict
        /\ \E a \in Accounts : Cardinality(Holders(rows, a)) = 2

(***************************************************************************)
(* Claims about the lifecycle, continued: what a request reads and which   *)
(* fields of which rows it writes.                                         *)
(***************************************************************************)
\* C21: a request for an access credential makes the outbound refresh call
\* only when the stored credential is expired or absent; with access_expiry
\* still in the future no outbound refresh is made.
C21_RefreshOnlyWhenExpired ==
    \A p \in Procs :
        (proc[p].pc = "rf_refresh" /\ "refresh" \in proc[p].calls)
            => proc[p].expired

Ids(T) == {r.id : r \in T}

RowById(T, id) == CHOOSE r \in T : r.id = id

\* r2 is r but for is_active, revoked_at and updated_at
SameButRevocation(r, r2) ==
    [r2 EXCEPT !.is_active = r.is_active, !.revoked_at = r.revoked_at,
               !.updated_at = r.updated_at] = r

\* C22: revoke_connection changes only is_active (to false), revoked_at and
\* updated_at of the user's rows: no row is deleted or created, the secret,
\* its nonce and key id and every other field stay, as do the other users' rows.
C22_RevokeFrame ==
    [][\A p \in Procs :
          (proc[p].kind = "revoke" /\ proc'[p] # proc[p])
              => /\ Ids(rows') = Ids(rows)
                 /\ \A r \in rows :
                       LET r2 == RowById(rows', r.id) IN
                       IF r.user_id = proc[p].user
                       THEN /\ SameButRevocation(r, r2)
                            /\ r2 # r => ~r2.is_active
                       ELSE r2 = r]_vars

C22_Witness ==
    \E p \in Procs :
        /\ proc[p].pc = "done" /\ proc[p].kind = "revoke"
        /\ "mark_revoked" \in proc[p].calls /\ proc[p].ret
        /\ \E r \in RowsOf(rows, proc[p].user) :
              /\ ~r.is_active /\ r.revoked_at # NoTime
              /\ r.encrypted_refresh_token = r.id
              /\ r.encryption_nonce = r.id
              /\ r.encryption_key_id = <<MasterKey>>

\* C23: a revoked row is kept as history: once a row has is_active = false,
\* no later step changes any of its fields or deletes it.
C23_RevokedRetained ==
    [][\A r \in rows : ~r.is_active => r \in rows']_vars

\* a refresh that was in flight when the user was revoked wrote last_error
\* on the revoked row
C23_ErrorOnRevokedRow ==
    \E r \in rows : ~r.is_active /\ r.revoked_at # NoTime /\ r.last_error # NoError

(***************************************************************************)
(* Abandoned callers.  The requests for an access credential on their own, *)
(* on a store where u1 is connected; a caller may go away while its        *)
(* request is served.  The cancellation of a request's task is raised at   *)
(* an await that suspends the task; until then it is pending.              *)
(***************************************************************************)
\* a slip: the store calls of _get_calendar_client suspend the task
SuspensionPointsStoreAwaits == {"rf_update", "rf_seterr"}

\* the places of _get_calendar_client where its task is suspended: none.  The
\* coroutines it awaits (get_by_user_id, set_error, update_expiry) make one
\* blocking store call each and credentials.refresh() is a blocking call too.
SuspensionPoints == {}

\* the caller of p goes away and p's task is cancelled
Cancel(p) ==
    LET q == proc[p] IN
    /\ q.kind = "refresh"
    /\ q.pc \in {"rf_get", "rf_refresh", "rf_update", "rf_seterr"}
    /\ ~q.cancelled
    /\ IF q.pc \in SuspensionPoints
         THEN Step(p, [Done(q, "CancelledError", "") EXCEPT !.cancelled = TRUE])
         ELSE Step(p, [q EXCEPT !.cancelled = TRUE])
    /\ UNCHANGED <<now, ttl, smVars, rows, nextId, started, cryptVars, avail, calVars>>

CaInit ==
    /\ now = 0
    /\ ttl = StateTtlSetting
    /\ issued = {}
    /\ last = NoCall
    /\ rows = {NewRow(1, <<"u1">>, "g1", 1, AccessLifetime, 0)}
    /\ nextId = 2
    /\ proc = [p \in Procs |-> IdleProc]
    /\ started = 0
    /\ CryptIdle
    /\ avail = NoAvail
    /\ CalIdle

CaNext ==
    \/ \E p \in Procs, u \in Users : StartRefresh(p, u)
    \/ \E p \in Procs : Cancel(p)
    \/ \E p \in Procs : Finish(p)
    \/ LcTick
    \/ \E p \in Procs, ok \in BOOLEAN, d \in BOOLEAN : RfGet(p, ok, d)
    \/ \E p \in Procs, o \in RefreshOutcomes : RfResponse(p, o)
    \/ \E p \in Procs, ok \in BOOLEAN : RfUpdateExpiry(p, ok)
    \/ \E p \in Procs, ok \in BOOLEAN : RfSetError(p, ok)

\* a blocking call returns or raises (credentials.refresh() has the transport's
\* timeout), and the handler runs on to its next statement
CaFairness ==
    \A p \in Procs :
        /\ WF_vars(\E o \in RefreshOutcomes : RfResponse(p, o))
        /\ WF_vars(\E ok \in BOOLEAN : RfUpdateExpiry(p, ok))
        /\ WF_vars(\E ok \in BOOLEAN : RfSetError(p, ok))

SpecCancel == CaInit /\ [][CaNext]_vars /\ CaFairness

\* p has ended having issued the store write of its refresh's result (a
\* refresh that returned no expiry has nothing to write)
Committed(p) ==
    /\ proc[p].pc = "done"
    /\ proc[p].cancelled
    /\ \/ "update_expiry" \in proc[p].calls
       \/ "set_error" \in proc[p].calls
       \/ proc[p].outcome = "ok_no_expiry"

UsedStates ==
    {proc[p].state : p \in {q \in Procs : /\ proc[q].pc = "done"
                                          /\ proc[q].kind = "callback"
                                          /\ proc[q].res = "connected"}}

\* C25, for handle_callback (checked under Spec): a state that an earlier
\* completed authorization used is accepted again within its TTL, and the
\* code is exchanged
C25_CallbackAcceptsUsedState ==
    [][\A p \in Procs :
          (/\ Leaves(p, "cb_validate")
           /\ proc[p].state \in UsedStates
           /\ now - IssuedAt(proc[p].state) <= ttl)
              => /\ "exchange" \in proc'[p].calls
                 /\ proc'[p].res # "OAuthStateError"]_vars

C25_UsedStateAccepted ==
    \E p \in Procs :
        /\ proc[p].kind = "callback"
        /\ proc[p].pc = "cb_check"
        /\ proc[p].state \in UsedStates

(***************************************************************************)
(* The free slots, continued (checked under SpecAvail).                    *)
(***************************************************************************)
\* each slot has start < end and starts no earlier than the one before ends
OrderedDisjoint(slots) ==
    /\ \A i \in 1..Len(slots) : HourOf(slots[i].start) < HourOf(slots[i].end)
    /\ \A i \in 1..(Len(slots) - 1) :
          HourOf(slots[i].end) <= HourOf(slots[i + 1].start)

\* C26: the list _calculate_free_slots returns is ordered and non-overlapping
\* for every input, the empty busy list included: each slot has start < end
\* and starts no earlier than the slot before it ends.
C26_OrderedDisjoint ==
    avail.done => OrderedDisjoint(avail.free_slots)

\* C26 for the windows written "HH:MM"
C26_OrderedWhenPadded ==
    (avail.done /\ IsPadded(avail.work_start) /\ IsPadded(avail.work_end))
        => OrderedDisjoint(avail.free_slots)

\* the empty busy list: one slot, the window
C26_EmptyBusyOneSlot ==
    /\ avail.done
    /\ avail.busy_slots = <<>>
    /\ avail.free_slots = <<AvailabilitySlot(avail.work_start, avail.work_end)>>

\* work_end written "9:00" is greater, as text, than the busy end "10:00":
\* the slot returned ends before it starts
C26_SlotEndsBeforeItStarts ==
    /\ avail.done
    /\ avail.work_start = Strftime(WorkStartDefault - 1)
    /\ avail.work_end = Unpadded(WorkStartDefault)
    /\ avail.busy_slots =
          <<AvailabilitySlot(Strftime(WorkStartDefault - 1), Strftime(WorkStartDefault + 1))>>
    /\ avail.free_slots =
          <<AvailabilitySlot(Strftime(WorkStartDefault + 1), Unpadded(WorkStartDefault))>>

(***************************************************************************)
(* Claims about the lifecycle, continued: store writes that fail or        *)
(* arrive out of order (checked under Spec).                               *)
(***************************************************************************)
\* p is a reconnect whose delete removed the user's prior record and whose
\* create has not been made yet or has failed
DeletedNotCreated(p) ==
    /\ proc[p].kind = "callback"
    /\ "delete" \in proc[p].calls /\ proc[p].ret
    /\ \/ proc[p].pc = "cb_create"
       \/ proc[p].pc = "done" /\ proc[p].res = "Exception"

\* C27: a reconnect is all-or-nothing: in no state has handle_callback deleted
\* the user's prior active record while the user has no active record.
C27_ReconnectAllOrNothing ==
    \A p \in Procs : DeletedNotCreated(p) => ActiveRows(rows, proc[p].user) # {}

\* the store failed the create after the delete: the user is left without
\* any record, and the callback ends with the store's exception
C27_CreateFailedNoRecord ==
    \E p \in Procs :
        /\ DeletedNotCreated(p)
        /\ proc[p].pc = "done"
        /\ "create" \in proc[p].calls
        /\ RowsOf(rows, proc[p].user) = {}

\* a request for the user's access credential served between the delete and
\* the create finds the user not connected
C27_GapObserved ==
    \E p, q \in Procs :
        /\ DeletedNotCreated(p) /\ proc[p].pc = "cb_create"
        /\ proc[q].kind = "refresh" /\ proc[q].user = proc[p].user
        /\ proc[q].pc = "done" /\ proc[q].res = "CalendarNotConnectedError"
        /\ RowsOf(rows, proc[p].user) = {}

\* C28: revoke_connection reports success only if the user's record has been
\* marked inactive in the store: when the mark_revoked write fails, success
\* is not reported.
C28_SuccessMeansRevoked ==
    [][\A p \in Procs :
          (Leaves(p, "rv_mark") /\ proc'[p].res = "success")
              => NoActiveRow(rows', proc[p].user)]_vars

\* the store failed the write, the record is still active, and the response
\* says the calendar was disconnected
C28_SuccessButStillActive ==
    \E p \in Procs :
        /\ proc[p].pc = "done" /\ proc[p].kind = "revoke"
        /\ proc[p].res = "success"
        /\ "mark_revoked" \in proc[p].calls /\ ~proc[p].ret
        /\ ActiveRows(rows, proc[p].user) # {}

\* expiries of access credentials issued for u that the state still holds:
\* on u's rows, and with the requests that are about to write theirs.  The
\* expiry of the credential issued last is at least the greatest of them.
IssuedExpiries(u) ==
    {r.access_token_expires_at : r \in RowsOf(rows, u)}
        \cup {proc[p].expiry : p \in {q \in Procs : /\ proc[q].kind = "refresh"
                                                    /\ proc[q].user = u
                                                    /\ proc[q].pc = "rf_update"}}

\* C29: whenever a request returns an access credential, the user's stored
\* access_expiry is the expiry of the access credential issued last for the
\* user, also when refreshes write in another order than they were issued in
\* or the store fails the write.
C29_StoredExpiryIsLatest ==
    [][\A p \in Procs :
          (Leaves(p, "rf_update") /\ proc'[p].res = "client")
              => \A r \in ActiveRows(rows', proc[p].user) :
                    r.access_token_expires_at = Max(IssuedExpiries(proc[p].user))]_vars

\* the store failed update_expiry (it returns False, which is not looked at)
\* and the client was returned over an expiry that is already past
C29_FailedWriteStale ==
    \E p \in Procs :
        /\ proc[p].pc = "done" /\ proc[p].kind = "refresh" /\ proc[p].res = "client"
        /\ "update_expiry" \in proc[p].calls /\ ~proc[p].ret
        /\ \E r \in ActiveRows(rows, proc[p].user) : r.access_token_expires_at <= now

\* a refresh issued earlier is about to write its expiry over a later one
C29_OlderWritePending ==
    \E p \in Procs :
        /\ proc[p].kind = "refresh" /\ proc[p].pc = "rf_update"
        /\ \E r \in ActiveRows(rows, proc[p].user) :
              /\ r.access_token_expires_at > proc[p].expiry
              /\ r.updated_at # NoTime

\* C30: a successful refresh leaves last_error as it is: last_error is
\* written only by a failed refresh (set_error); no successful refresh and no
\* revoke clears or changes it, and it stays on the row until a reconnect's
\* delete removes the row (the row created in its place has none).
C30_LastErrorPersists ==
    [][/\ \A r \in rows :
             IF r.id \in Ids(rows')
             THEN RowById(rows', r.id).last_error # r.last_error
                     => \E p \in Procs : /\ Leaves(p, "rf_seterr")
                                         /\ proc[p].user = r.user_id
                                         /\ proc[p].outcome \in FailedOutcomes
                                         /\ RowById(rows', r.id).last_error
                                                = proc[p].outcome
             ELSE \E p \in Procs : Leaves(p, "cb_delete") /\ proc[p].user = r.user_id
       /\ \A r \in rows' : r.id \notin Ids(rows) => r.last_error = NoError
       /\ \A p \in Procs :
             (Leaves(p, "rf_update") \/ Leaves(p, "rv_mark"))
                 => \A r \in rows : RowById(rows', r.id).last_error = r.last_error]_vars

\* a refresh failed and wrote last_error; a later request read the row with
\* the error on it, refreshed successfully and wrote its expiry: the error
\* is still on the row
C30_Witness ==
    \E p \in Procs :
        /\ proc[p].pc = "done" /\ proc[p].kind = "refresh" /\ proc[p].res = "client"
        /\ "update_expiry" \in proc[p].calls /\ proc[p].ret
        /\ proc[p].read_error \in FailedOutcomes
        /\ \E r \in ActiveRows(rows, proc[p].user) :
              /\ r.last_error = proc[p].read_error
              /\ r.access_token_expires_at = now + AccessLifetime

====
